---------------------------- MODULE Spec2Model ----------------------------
(***************************************************************************)
(* Model of the P2P USDT trading API (src/src/main.py, models.py,          *)
(* database.py, schemas.py).                                               *)
(*                                                                         *)
(* The database tables are the shared state.  Every request handler is a   *)
(* sequence of database round trips (a query, or a flush-and-commit); one  *)
(* action of the model is one round trip together with the Python code     *)
(* that runs up to the next one.  Handlers share nothing but the database  *)
(* (the Session is per request, database.py 33-39), and the code takes no  *)
(* lock, so round trips of different requests interleave freely when the   *)
(* service runs as more than one worker on one database.                   *)
(*                                                                         *)
(* Money columns are Float (models.py 48-53): Python floats, IEEE-754      *)
(* binary64.  The model computes them bit for bit (section 1).             *)
(***************************************************************************)
EXTENDS Integers, Sequences, FiniteSets, TLC

(***************************************************************************)
(* 1. IEEE-754 binary64 arithmetic on positive normal numbers.             *)
(*                                                                         *)
(* A natural number is a little-endian sequence of limbs in base 2^14,     *)
(* without leading zero limbs (zero is <<>>).  A float is [m, e], value    *)
(* m * 2^e, with m a natural number of exactly 53 bits (zero is            *)
(* [m |-> <<>>, e |-> 0]).  Every operation computes the exact result and  *)
(* rounds it to nearest, ties to even.  Exponent overflow and subnormals   *)
(* are not modelled: the amounts here are far from both.                   *)
(***************************************************************************)
LimbBits == 14
Base == 2 ^ LimbBits
MantBits == 53

\* Every operator below that uses an argument more than once first binds it
\* to its value (a \in {a0}), so that the argument is evaluated once.

Min(a, b) == IF a <= b THEN a ELSE b

RECURSIVE BNorm(_)
BNorm(a0) ==
    CHOOSE r \in {IF a = <<>> THEN <<>>
                  ELSE IF a[Len(a)] = 0 THEN BNorm(SubSeq(a, 1, Len(a) - 1)) ELSE a
                  : a \in {a0}} : TRUE

RECURSIVE BFromNat(_)
BFromNat(n) == IF n = 0 THEN <<>> ELSE <<n % Base>> \o BFromNat(n \div Base)

Limb(a, i) == IF i <= Len(a) THEN a[i] ELSE 0

RECURSIVE BAddC(_, _, _)
BAddC(a0, b0, carry0) ==
    CHOOSE r \in
      {IF a = <<>> /\ b = <<>>
       THEN (IF carry = 0 THEN <<>> ELSE <<carry>>)
       ELSE LET s == Limb(a, 1) + Limb(b, 1) + carry
            IN  <<s % Base>> \o BAddC(IF a = <<>> THEN <<>> ELSE Tail(a),
                                      IF b = <<>> THEN <<>> ELSE Tail(b),
                                      s \div Base)
       : a \in {a0}, b \in {b0}, carry \in {carry0}} : TRUE
BAdd(a, b) == BAddC(a, b, 0)

\* a - b for a >= b
RECURSIVE BSubC(_, _, _)
BSubC(a0, b0, borrow0) ==
    CHOOSE r \in
      {IF a = <<>> THEN <<>>
       ELSE LET d == a[1] - Limb(b, 1) - borrow
            IN  <<(d + Base) % Base>>
                \o BSubC(Tail(a), IF b = <<>> THEN <<>> ELSE Tail(b),
                         IF d < 0 THEN 1 ELSE 0)
       : a \in {a0}, b \in {b0}, borrow \in {borrow0}} : TRUE
BSub(a, b) == BNorm(BSubC(a, b, 0))

\* a < b, both without leading zeros
RECURSIVE BLessEq(_, _, _)
BLessEq(a, b, i) ==
    IF i = 0 THEN TRUE
    ELSE IF a[i] # b[i] THEN a[i] < b[i] ELSE BLessEq(a, b, i - 1)
BLeq(a0, b0) ==
    CHOOSE r \in
      {IF Len(a) # Len(b) THEN Len(a) < Len(b) ELSE BLessEq(a, b, Len(a))
       : a \in {a0}, b \in {b0}} : TRUE

\* a * k for a limb-sized k (0 <= k <= Base)
RECURSIVE BMulSmallC(_, _, _)
BMulSmallC(a0, k0, carry0) ==
    CHOOSE r \in
      {IF a = <<>> THEN (IF carry = 0 THEN <<>> ELSE <<carry>>)
       ELSE LET p == a[1] * k + carry
            IN  <<p % Base>> \o BMulSmallC(Tail(a), k, p \div Base)
       : a \in {a0}, k \in {k0}, carry \in {carry0}} : TRUE
BMulSmall(a, k) == BNorm(BMulSmallC(a, k, 0))

RECURSIVE BMul(_, _)
BMul(a0, b0) ==
    CHOOSE r \in
      {IF b = <<>> \/ a = <<>> THEN <<>>
       ELSE BAdd(BMulSmall(a, b[1]),
                 CHOOSE t \in {IF u = <<>> THEN <<>> ELSE <<0>> \o u
                               : u \in {BMul(a, Tail(b))}} : TRUE)
       : a \in {a0}, b \in {b0}} : TRUE

RECURSIVE Zeros(_)
Zeros(n) == IF n = 0 THEN <<>> ELSE <<0>> \o Zeros(n - 1)

\* a * 2^s
BShl(a0, s0) ==
    CHOOSE r \in
      {IF a = <<>> THEN <<>>
       ELSE Zeros(s \div LimbBits) \o BMulSmall(a, 2 ^ (s % LimbBits))
       : a \in {a0}, s \in {s0}} : TRUE

\* floor(a / 2^s)
BShr(a0, s0) ==
    CHOOSE r \in
      {LET q == s \div LimbBits
           w == s % LimbBits
           d == IF q >= Len(a) THEN <<>> ELSE SubSeq(a, q + 1, Len(a))
           f == [i \in 1..Len(d) |->
                    (d[i] \div (2 ^ w)) + (Limb(d, i + 1) % (2 ^ w)) * (2 ^ (LimbBits - w))]
       IN  BNorm(SubSeq(f, 1, Len(f)))
       : a \in {a0}, s \in {s0}} : TRUE

RECURSIVE NatBits(_)
NatBits(n) == IF n = 0 THEN 0 ELSE 1 + NatBits(n \div 2)

\* the number of bits of a
BBits(a0) ==
    CHOOSE r \in {IF a = <<>> THEN 0 ELSE LimbBits * (Len(a) - 1) + NatBits(a[Len(a)])
                  : a \in {a0}} : TRUE

\* bit i of a (bit 0 is the least significant)
BBit(a, i) == (Limb(a, (i \div LimbBits) + 1) \div (2 ^ (i % LimbBits))) % 2

\* a mod 2^s is not zero
BLowNonZero(a0, s0) ==
    CHOOSE r \in {BShl(BShr(a, s), s) # a : a \in {a0}, s \in {s0}} : TRUE

FZero == [m |-> <<>>, e |-> 0]

\* q + 1 when up, normalised to MantBits bits: the float q1 * 2^e
RoundUp(q0, up, e) ==
    CHOOSE r \in
      {IF BBits(q1) > MantBits
       THEN [m |-> BShr(q1, 1), e |-> e + 1]
       ELSE [m |-> q1, e |-> e]
       : q1 \in {IF up THEN BAdd(q0, <<1>>) ELSE q0}} : TRUE

\* the float nearest to n * 2^e (ties to even)
Round(n0, e0) ==
    CHOOSE r \in
      {IF L = 0 THEN FZero
       ELSE IF L <= MantBits
       THEN [m |-> BShl(n, MantBits - L), e |-> e - (MantBits - L)]
       ELSE LET s == L - MantBits
                q == BShr(n, s)
                half == BBit(n, s - 1) = 1
                sticky == BLowNonZero(n, s - 1)
            IN  RoundUp(q, half /\ (sticky \/ BBit(q, 0) = 1), e + s)
       : n \in {n0}, e \in {e0}, L \in {BBits(n0)}} : TRUE

\* the float n * 2^e of a small natural n
Float(n, e) == Round(BFromNat(n), e)

FMul(x0, y0) ==
    CHOOSE r \in {Round(BMul(x.m, y.m), x.e + y.e) : x \in {x0}, y \in {y0}} : TRUE

\* x - y for x >= y
FSub(x0, y0) ==
    CHOOSE r \in
      {IF y = FZero THEN x
       ELSE LET e0 == Min(x.e, y.e)
            IN  Round(BSub(BShl(x.m, x.e - e0), BShl(y.m, y.e - e0)), e0)
       : x \in {x0}, y \in {y0}} : TRUE

\* restoring division: the first `bits` quotient bits of r / d (r < 2d),
\* as <<quotient, remainder is not zero>>
RECURSIVE DivBits(_, _, _, _)
DivBits(r0, d0, bits, q0) ==
    CHOOSE res \in
      {IF bits = 0 THEN <<q, r # <<>>>>
       ELSE LET ge == BLeq(d, r)
            IN  DivBits(BShl(IF ge THEN BSub(r, d) ELSE r, 1), d, bits - 1,
                        BAdd(BShl(q, 1), IF ge THEN <<1>> ELSE <<>>))
       : r \in {r0}, d \in {d0}, q \in {q0}} : TRUE

\* x / y for y # 0: the quotient to MantBits + 3 bits and a sticky bit, rounded
FDiv(x0, y0) ==
    CHOOSE r \in
      {IF x = FZero THEN FZero
       ELSE LET n == BAdd(BShl(qs[1], 1), IF qs[2] THEN <<1>> ELSE <<>>)
            IN  Round(n, x.e - y.e - (MantBits + 2) - 1)
       : x \in {x0}, y \in {y0}, qs \in {DivBits(x0.m, y0.m, MantBits + 3, <<>>)}} : TRUE

(***************************************************************************)
(* 2. Configuration (main.py 34-37, defaults of os.getenv) and inputs.     *)
(***************************************************************************)
ESCROW_WALLET == "TXxxxxxx"
COMMISSION_PERCENT == Float(3, -1)                  \* float("1.5")
RELEASE_SECRET == "p2p_secure_release_key_2024"
Hundred == Float(100, 0)                            \* the literal 100

\* Bounds of the model.
NumProcs == 2        \* request handlers that can be in progress at once
MaxCalls == 6        \* requests that get past their first checks, in one behaviour
MaxUsers == 2        \* create_user is not called once this many users exist
MaxListings == 1     \* likewise create_listing
MaxDeals == 3        \* likewise create_deal
CodeLen == 1         \* characters of a trade code (k of random.choices)
AlphabetSize == 2    \* symbols of the trade-code alphabet that are used

Procs == 1..NumProcs

\* string.ascii_uppercase + string.digits, cut to AlphabetSize symbols
AlphabetSeq == <<"A", "B", "C", "D", "E", "F", "G", "H", "I", "J", "K", "L", "M",
                 "N", "O", "P", "Q", "R", "S", "T", "U", "V", "W", "X", "Y", "Z",
                 "0", "1", "2", "3", "4", "5", "6", "7", "8", "9">>
Alphabet == {AlphabetSeq[i] : i \in 1..Min(AlphabetSize, Len(AlphabetSeq))}

RECURSIVE SeqsOfLen(_, _)
SeqsOfLen(S, n) ==
    IF n = 0 THEN {<<>>}
    ELSE {<<x>> \o t : x \in S, t \in SeqsOfLen(S, n - 1)}

\* the values Deal.generate_trade_code() can return (models.py 63-66)
Codes == SeqsOfLen(Alphabet, CodeLen)

\* trade codes a caller sends: a code, "#" + code, "##" + code
InputCodes == Codes \cup {<<"#">> \o c : c \in Codes}
                    \cup {<<"#", "#">> \o c : c \in Codes}

Secrets == {RELEASE_SECRET, "wrong_secret"}
Handles == {"abebe_k", "sara_t1"}
\* usdt_amount: 100.0 and 2.89 (0x1.71eb851eb851fp+1)
Amounts == {Float(100, 0), [m |-> <<1311, 1966, 11141, 1479>>, e |-> -51]}
\* rate: 130.0 and 57.5
Rates == {Float(130, 0), Float(115, -1)}
UserIds == 1..MaxUsers
ListingIds == 1..(MaxListings + 1)

\* The inputs of the requests that run concurrently (Spec): one value of each
\* kind that does not decide an interleaving.
SomeCodes == Codes \cup {<<"#">> \o c : c \in Codes}
SomeHandles == {"abebe_k"}
SomeAmounts == {Float(100, 0)}
SomeRates == {Float(130, 0)}
Backends == {"postgresql", "sqlite"}

(***************************************************************************)
(* 3. State.                                                               *)
(***************************************************************************)
VARIABLES
    backend,     \* the database DATABASE_URL names (database.py 7-28)
    users,       \* table users: row i has id i
    listings,    \* table listings
    deals,       \* table deals
    logs,        \* table logs
    req,         \* req[p]: the request handler p runs, its locals and its result
    acks,        \* acks[d]: the successful responses sent so far about deal d
    calls        \* requests admitted so far: those that got past their first checks

vars == <<backend, users, listings, deals, logs, req, acks, calls>>

NoListing == [user_id |-> 0, rate |-> FZero]
NoAcks == [confirm_payment |-> 0, release_funds |-> 0]
Running == [status_code |-> 0, detail |-> ""]
Ok == [status_code |-> 200, detail |-> ""]
HTTPException(code, detail) == [status_code |-> code, detail |-> detail]
\* an IntegrityError of the database, which no handler catches
IntegrityError == [status_code |-> 500, detail |-> "IntegrityError"]
UserExists == HTTPException(400, "User already exists")               \* line 85
UserNotFound == HTTPException(404, "User not found")                  \* line 114
ListingNotFound == HTTPException(404, "Listing not found")            \* line 148
DealNotFound == HTTPException(404, "Deal not found")                  \* lines 213, 246
DealNotPending == HTTPException(400, "Deal is not in pending status") \* line 216
InvalidAdminSecret == HTTPException(403, "Invalid admin secret")      \* line 237
DealNotPaid == HTTPException(400, "Deal payment not confirmed")       \* line 249

NoReq ==
    [op |-> "none", pc |-> "idle",
     telegram_username |-> "", user_id |-> 0, rate |-> FZero,
     listing_id |-> 0, buyer_id |-> 0, usdt_amount |-> FZero,
     code |-> <<>>, secret |-> "",
     trade_code |-> <<>>, listing |-> NoListing, deal_id |-> 0,
     result |-> Running, response |-> <<>>]

Init ==
    /\ backend \in Backends
    /\ users = <<>>
    /\ listings = <<>>
    /\ deals = <<>>
    /\ logs = <<>>
    /\ req = [p \in Procs |-> NoReq]
    /\ acks = <<>>
    /\ calls = 0

(***************************************************************************)
(* 4. The database.                                                        *)
(***************************************************************************)
\* db.query(User).filter(User.telegram_username == h).first(): its id, or 0
UserByUsername(h) ==
    IF \E i \in 1..Len(users) : users[i].telegram_username = h
    THEN CHOOSE i \in 1..Len(users) :
            /\ users[i].telegram_username = h
            /\ \A j \in 1..(i - 1) : users[j].telegram_username # h
    ELSE 0
\* db.query(Deal).filter(Deal.trade_code == c).first(): its id, or 0
DealByTradeCode(c) ==
    IF \E i \in 1..Len(deals) : deals[i].trade_code = c
    THEN CHOOSE i \in 1..Len(deals) :
            /\ deals[i].trade_code = c
            /\ \A j \in 1..(i - 1) : deals[j].trade_code # c
    ELSE 0
UserById(id) == IF id \in 1..Len(users) THEN id ELSE 0
\* the listing query falling back to the first listing when none matches
ListingByIdOrFirst(id) ==
    IF id \in 1..Len(listings) THEN id ELSE IF Len(listings) > 0 THEN 1 ELSE 0
ListingById(id) == IF id \in 1..Len(listings) THEN id ELSE 0

\* unique=True of User.telegram_username (models.py 13)
UsernameUnique(h) == \A i \in 1..Len(users) : users[i].telegram_username # h
\* the trade_code column without its uniqueness constraint
TradeCodeUniqueUnchecked(c) == TRUE
\* unique=True of Deal.trade_code (models.py 50)
TradeCodeUnique(c) == \A i \in 1..Len(deals) : deals[i].trade_code # c
\* ForeignKey("users.id"): PostgreSQL enforces it; SQLite does not, since the
\* engine never sets PRAGMA foreign_keys (database.py 24-28)
UserFK(id) == backend = "sqlite" \/ id \in 1..Len(users)
ListingFK(id) == backend = "sqlite" \/ id \in 1..Len(listings)

\* trade_code.lstrip("#"): every leading "#" removed
RECURSIVE LStripHash(_)
LStripHash(c) == IF Len(c) > 0 /\ c[1] = "#" THEN LStripHash(Tail(c)) ELSE c
\* trade_code.startswith("#") and trade_code[1:]
StripHash(c) == IF Len(c) > 0 /\ c[1] = "#" THEN Tail(c) ELSE c

Finish(p, result, response) ==
    req' = [req EXCEPT ![p].pc = "done", ![p].result = result,
                       ![p].response = response]
Goto(p, pc) == req' = [req EXCEPT ![p].pc = pc]
\* Sending a response and closing the Session (database.py 36-39) touch nothing
\* shared, so they happen before any other step: no step is taken while a
\* response is waiting to be sent.
Quiet == \A q \in Procs : req[q].pc # "done"
CanStart(p) == req[p].pc = "idle" /\ Quiet
\* A request that answers in its first step leaves the database as it found
\* it; the requests that go on to write are counted, up to MaxCalls.
Answered == calls' = calls
Admitted == calls < MaxCalls /\ calls' = calls + 1

(***************************************************************************)
(* 5. The request handlers.  Each action is one database round trip of a   *)
(* handler with the code around it; the first action of a handler also     *)
(* receives the request.                                                   *)
(***************************************************************************)
Receive(p, op) == [NoReq EXCEPT !.op = op]

\* ---- POST /users (main.py 79-91)
create_user(p, h) ==
    /\ CanStart(p) /\ Len(users) < MaxUsers
    /\ LET r == [Receive(p, "create_user") EXCEPT !.telegram_username = h]
       IN  IF UserByUsername(h) # 0
           THEN /\ Answered
                /\ req' = [req EXCEPT ![p] =
                             [r EXCEPT !.pc = "done",
                                       !.result = UserExists]]
           ELSE /\ Admitted
                /\ req' = [req EXCEPT ![p] = [r EXCEPT !.pc = "cu_commit"]]
    /\ UNCHANGED <<backend, users, listings, deals, logs, acks>>

create_user_commit(p) ==
    /\ req[p].pc = "cu_commit" /\ Quiet
    /\ IF UsernameUnique(req[p].telegram_username)
       THEN /\ users' = Append(users, [id |-> Len(users) + 1,
                                       telegram_username |-> req[p].telegram_username])
            /\ Finish(p, Ok, users'[Len(users')])
       ELSE /\ users' = users
            /\ Finish(p, IntegrityError, <<>>)
    /\ UNCHANGED <<backend, listings, deals, logs, acks, calls>>

\* ---- POST /listings (main.py 108-120)
create_listing(p, user_id, rate) ==
    /\ CanStart(p) /\ Len(listings) < MaxListings
    /\ LET r == [Receive(p, "create_listing") EXCEPT !.user_id = user_id, !.rate = rate]
       IN  IF UserById(user_id) = 0
           THEN /\ Answered
                /\ req' = [req EXCEPT ![p] =
                             [r EXCEPT !.pc = "done",
                                       !.result = UserNotFound]]
           ELSE /\ Admitted
                /\ req' = [req EXCEPT ![p] = [r EXCEPT !.pc = "cl_commit"]]
    /\ UNCHANGED <<backend, users, listings, deals, logs, acks>>

create_listing_commit(p) ==
    /\ req[p].pc = "cl_commit" /\ Quiet
    /\ IF UserFK(req[p].user_id)
       THEN /\ listings' = Append(listings, [id |-> Len(listings) + 1,
                                             user_id |-> req[p].user_id,
                                             rate |-> req[p].rate])
            /\ Finish(p, Ok, listings'[Len(listings')])
       ELSE /\ listings' = listings
            /\ Finish(p, IntegrityError, <<>>)
    /\ UNCHANGED <<backend, users, deals, logs, acks, calls>>

\* ---- POST /deals (main.py 142-183)
\* lines 146-151: the listing is looked up and a first trade code c is drawn
create_deal(p, listing_id, buyer_id, usdt_amount, c) ==
    /\ CanStart(p) /\ Len(deals) < MaxDeals
    /\ LET r == [Receive(p, "create_deal") EXCEPT !.listing_id = listing_id,
                     !.buyer_id = buyer_id, !.usdt_amount = usdt_amount]
           listing == ListingById(listing_id)
       IN  IF listing = 0
           THEN /\ Answered
                /\ req' = [req EXCEPT ![p] =
                             [r EXCEPT !.pc = "done",
                                       !.result = ListingNotFound]]
           ELSE /\ Admitted
                /\ req' = [req EXCEPT ![p] =
                             [r EXCEPT !.pc = "cd_check",
                                       !.listing = [user_id |-> listings[listing].user_id,
                                                    rate |-> listings[listing].rate],
                                       !.trade_code = c]]
    /\ UNCHANGED <<backend, users, listings, deals, logs, acks>>

\* lines 152-153: one test of the while loop; a taken code is replaced by a
\* new draw c
create_deal_check(p, c) ==
    /\ req[p].pc = "cd_check" /\ Quiet
    /\ IF DealByTradeCode(req[p].trade_code) # 0
       THEN req' = [req EXCEPT ![p].trade_code = c]
       ELSE Goto(p, "cd_insert")
    /\ UNCHANGED <<backend, users, listings, deals, logs, acks, calls>>

\* COMMISSION_PERCENT / 100 of line 157: the same float in every call
CommissionRate == FDiv(COMMISSION_PERCENT, Hundred)

\* the Deal object with the commission taken from the ETB amount
NewDealCommissionOfEtb(r, id) ==
    [id |-> id,
     listing_id |-> r.listing_id,
     buyer_id |-> r.buyer_id,
     seller_id |-> r.listing.user_id,
     usdt_amount |-> r.usdt_amount,
     etb_amount |-> FMul(r.usdt_amount, r.listing.rate),
     trade_code |-> r.trade_code,
     escrow_wallet |-> ESCROW_WALLET,
     status |-> "pending",
     commission_amount |-> FMul(FMul(r.usdt_amount, r.listing.rate), CommissionRate)]

\* lines 155-168: the Deal object
NewDeal(r, id) ==
    [id |-> id,
     listing_id |-> r.listing_id,
     buyer_id |-> r.buyer_id,
     seller_id |-> r.listing.user_id,
     usdt_amount |-> r.usdt_amount,
     etb_amount |-> FMul(r.usdt_amount, r.listing.rate),
     trade_code |-> r.trade_code,
     escrow_wallet |-> ESCROW_WALLET,
     status |-> "pending",
     commission_amount |-> FMul(r.usdt_amount, CommissionRate)]

\* the constraints the INSERT into deals is checked against
DealInsertable(r) ==
    /\ TradeCodeUnique(r.trade_code)
    /\ ListingFK(r.listing_id)
    /\ UserFK(r.buyer_id)
    /\ UserFK(r.listing.user_id)

\* lines 170-171: INSERT and commit
create_deal_insert(p) ==
    /\ req[p].pc = "cd_insert" /\ Quiet
    /\ IF DealInsertable(req[p])
       THEN /\ deals' = Append(deals, NewDeal(req[p], Len(deals) + 1))
            /\ acks' = Append(acks, NoAcks)
            /\ req' = [req EXCEPT ![p].pc = "cd_log", ![p].deal_id = Len(deals) + 1]
       ELSE /\ deals' = deals
            /\ acks' = acks
            /\ Finish(p, IntegrityError, <<>>)
    /\ UNCHANGED <<backend, users, listings, logs, calls>>

\* lines 172-181: refresh, then the "Deal created" Log row and its commit
create_deal_log(p) ==
    /\ req[p].pc = "cd_log" /\ Quiet
    /\ logs' = Append(logs, [deal_id |-> req[p].deal_id, action |-> "Deal created",
                             notes |-> <<req[p].trade_code, req[p].usdt_amount>>])
    /\ Goto(p, "cd_return")
    /\ UNCHANGED <<backend, users, listings, deals, acks, calls>>

\* line 183: db_deal, expired by the commit, is loaded again for the response
create_deal_return(p) ==
    /\ req[p].pc = "cd_return" /\ Quiet
    /\ Finish(p, Ok, deals[req[p].deal_id])
    /\ UNCHANGED <<backend, users, listings, deals, logs, acks, calls>>

\* ---- POST /confirm-payment (main.py 203-231)
\* the test of line 215 rejecting only a released Deal
NotPendingReleasedOnly(deal) == deal.status = "released"
\* line 215
NotPending(deal) == deal.status # "pending"

\* lines 207-216
confirm_payment(p, code) ==
    /\ CanStart(p)
    /\ LET r == [Receive(p, "confirm_payment") EXCEPT !.code = code,
                                                      !.trade_code = StripHash(code)]
           deal == DealByTradeCode(r.trade_code)
       IN  IF deal = 0
           THEN /\ Answered
                /\ req' = [req EXCEPT ![p] =
                             [r EXCEPT !.pc = "done",
                                       !.result = DealNotFound]]
           ELSE IF NotPending(deals[deal])
           THEN /\ Answered
                /\ req' = [req EXCEPT ![p] =
                             [r EXCEPT !.pc = "done", !.deal_id = deal,
                                       !.result = DealNotPending]]
           ELSE /\ Admitted
                /\ req' = [req EXCEPT ![p] =
                             [r EXCEPT !.pc = "cp_update", !.deal_id = deal]]
    /\ UNCHANGED <<backend, users, listings, deals, logs, acks>>

\* the UPDATE of lines 219-220 without its WHERE clause
confirm_payment_update_all(p) ==
    /\ req[p].pc = "cp_update" /\ Quiet
    /\ deals' = [i \in 1..Len(deals) |-> [deals[i] EXCEPT !.status = "paid"]]
    /\ Goto(p, "cp_log")
    /\ UNCHANGED <<backend, users, listings, logs, acks, calls>>

\* lines 219-220: UPDATE deals SET status = 'paid' WHERE id = deal.id, commit
confirm_payment_update(p) ==
    /\ req[p].pc = "cp_update" /\ Quiet
    /\ deals' = [deals EXCEPT ![req[p].deal_id].status = "paid"]
    /\ Goto(p, "cp_log")
    /\ UNCHANGED <<backend, users, listings, logs, acks, calls>>

\* lines 223-229 writing over the last Log row of the Deal instead of adding one
confirm_payment_log_update(p) ==
    /\ req[p].pc = "cp_log" /\ Quiet
    /\ LET mine == {i \in 1..Len(logs) : logs[i].deal_id = req[p].deal_id}
           new == [deal_id |-> req[p].deal_id, action |-> "Payment confirmed",
                   notes |-> <<>>]
       IN  IF mine = {}
           THEN logs' = Append(logs, new)
           ELSE logs' = [logs EXCEPT ![CHOOSE i \in mine : \A j \in mine : j <= i] = new]
    /\ Goto(p, "cp_return")
    /\ UNCHANGED <<backend, users, listings, deals, acks, calls>>

\* lines 223-229
confirm_payment_log(p) ==
    /\ req[p].pc = "cp_log" /\ Quiet
    /\ logs' = Append(logs, [deal_id |-> req[p].deal_id, action |-> "Payment confirmed",
                             notes |-> <<>>])
    /\ Goto(p, "cp_return")
    /\ UNCHANGED <<backend, users, listings, deals, acks, calls>>

\* line 231: deal.trade_code is loaded again for the response
confirm_payment_return(p) ==
    /\ req[p].pc = "cp_return" /\ Quiet
    /\ Finish(p, Ok, [message |-> "Payment confirmed successfully",
                      trade_code |-> deals[req[p].deal_id].trade_code])
    /\ acks' = [acks EXCEPT ![req[p].deal_id].confirm_payment = @ + 1]
    /\ UNCHANGED <<backend, users, listings, deals, logs, calls>>

\* ---- POST /admin/release-funds (main.py 233-269)
\* the test of line 236 rejecting only an empty secret
InvalidSecretEmptyOnly(secret) == secret = ""
\* line 236
InvalidSecret(secret) == secret # RELEASE_SECRET
\* the test of line 248 rejecting only a released Deal
NotPaidReleasedOnly(deal) == deal.status = "released"
\* line 248
NotPaid(deal) == deal.status # "paid"

\* lines 236-249
release_funds(p, code, secret) ==
    /\ CanStart(p)
    /\ LET r == [Receive(p, "release_funds") EXCEPT !.code = code, !.secret = secret]
           trade_code == StripHash(code)
           deal == DealByTradeCode(trade_code)
       IN  IF InvalidSecret(secret)
           THEN /\ Answered
                /\ req' = [req EXCEPT ![p] =
                             [r EXCEPT !.pc = "done",
                                       !.result = InvalidAdminSecret]]
           ELSE IF deal = 0
           THEN /\ Answered
                /\ req' = [req EXCEPT ![p] =
                             [r EXCEPT !.pc = "done", !.trade_code = trade_code,
                                       !.result = DealNotFound]]
           ELSE IF NotPaid(deals[deal])
           THEN /\ Answered
                /\ req' = [req EXCEPT ![p] =
                             [r EXCEPT !.pc = "done", !.trade_code = trade_code,
                                       !.deal_id = deal,
                                       !.result = DealNotPaid]]
           ELSE /\ Admitted
                /\ req' = [req EXCEPT ![p] =
                             [r EXCEPT !.pc = "rf_update", !.trade_code = trade_code,
                                       !.deal_id = deal]]
    /\ UNCHANGED <<backend, users, listings, deals, logs, acks>>

\* lines 252-253: UPDATE deals SET status = 'released' WHERE id = deal.id, commit
release_funds_update(p) ==
    /\ req[p].pc = "rf_update" /\ Quiet
    /\ deals' = [deals EXCEPT ![req[p].deal_id].status = "released"]
    /\ Goto(p, "rf_log")
    /\ UNCHANGED <<backend, users, listings, logs, acks, calls>>

\* lines 256-262: the row is loaded again for the notes
release_funds_log(p) ==
    /\ req[p].pc = "rf_log" /\ Quiet
    /\ LET deal == deals[req[p].deal_id]
       IN  logs' = Append(logs, [deal_id |-> deal.id, action |-> "Funds released",
                                 notes |-> <<FSub(deal.usdt_amount, deal.commission_amount)>>])
    /\ Goto(p, "rf_return")
    /\ UNCHANGED <<backend, users, listings, deals, acks, calls>>

\* lines 264-269: the row is loaded again for the response
release_funds_return(p) ==
    /\ req[p].pc = "rf_return" /\ Quiet
    /\ LET deal == deals[req[p].deal_id]
       IN  Finish(p, Ok, [message |-> "Funds released successfully",
                          trade_code |-> deal.trade_code,
                          amount_released |-> FSub(deal.usdt_amount, deal.commission_amount),
                          commission |-> deal.commission_amount])
    /\ acks' = [acks EXCEPT ![req[p].deal_id].release_funds = @ + 1]
    /\ UNCHANGED <<backend, users, listings, deals, logs, calls>>

\* ---- GET /admin/pending-deals (main.py 271-275)
get_pending_deals(p) ==
    /\ CanStart(p) /\ Answered
    /\ req' = [req EXCEPT ![p] =
                 [Receive(p, "get_pending_deals") EXCEPT
                     !.pc = "done", !.result = Ok,
                     !.response = SelectSeq(deals, LAMBDA d : d.status \in {"pending", "paid"})]]
    /\ UNCHANGED <<backend, users, listings, deals, logs, acks>>

\* the response is sent and the handler is free for the next request
Reply(p) ==
    /\ req[p].pc = "done"
    /\ req' = [req EXCEPT ![p] = NoReq]
    /\ UNCHANGED <<backend, users, listings, deals, logs, acks, calls>>

\* a request arrives at handler p, with inputs from the given sets
Request(p, handles, rates, amounts, codes) ==
    \/ \E h \in handles : create_user(p, h)
    \/ \E u \in UserIds, r \in rates : create_listing(p, u, r)
    \/ \E l \in ListingIds, b \in UserIds, a \in amounts, c \in Codes :
          create_deal(p, l, b, a, c)
    \/ \E c \in codes : confirm_payment(p, c)
    \/ \E c \in codes, s \in Secrets : release_funds(p, c, s)
    \/ get_pending_deals(p)

\* handler p takes its next step
Continue(p) ==
    \/ create_user_commit(p)
    \/ create_listing_commit(p)
    \/ \E c \in Codes : create_deal_check(p, c)
    \/ create_deal_insert(p)
    \/ create_deal_log(p)
    \/ create_deal_return(p)
    \/ confirm_payment_update(p)
    \/ confirm_payment_log(p)
    \/ confirm_payment_return(p)
    \/ release_funds_update(p)
    \/ release_funds_log(p)
    \/ release_funds_return(p)
    \/ Reply(p)

\* concurrent requests
Next ==
    \E p \in Procs :
        Request(p, SomeHandles, SomeRates, SomeAmounts, SomeCodes) \/ Continue(p)

\* one request at a time, with every input
NextSeq == Request(1, Handles, Rates, Amounts, InputCodes) \/ Continue(1)

Spec == Init /\ [][Next]_vars
SpecSeq == Init /\ [][NextSeq]_vars

\* a test of the while loop of lines 152-153 that leaves the handler with a
\* code no Deal has
create_deal_fresh(p) == \E c \in Codes : TradeCodeUnique(c) /\ create_deal_check(p, c)

\* A handler that can take a step takes it, and generate_trade_code, which
\* draws every code with the same probability, does not avoid the unused codes
\* for ever.
Fairness(p) == WF_vars(Continue(p)) /\ SF_vars(create_deal_fresh(p))

\* one request at a time, with the inputs of Spec, under fairness
NextFair == Request(1, SomeHandles, SomeRates, SomeAmounts, SomeCodes) \/ Continue(1)
SpecFair == Init /\ [][NextFair]_vars /\ Fairness(1)

(***************************************************************************)
(* 6. The claims.                                                          *)
(***************************************************************************)
\* handler p receives a request of kind op in this step
Receives(p, op) == req[p].pc = "idle" /\ req'[p].op = op
\* the deal a trade code sent by a caller names, or 0
Named(code) == DealByTradeCode(StripHash(code))
HasLog(d, action) == \E i \in 1..Len(logs) : logs[i].deal_id = d /\ logs[i].action = action
\* x + y of two floats, as a caller adding up a response computes it
FAdd(x0, y0) ==
    CHOOSE r \in
      {IF x = FZero THEN y ELSE IF y = FZero THEN x
       ELSE LET e0 == Min(x.e, y.e)
            IN  Round(BAdd(BShl(x.m, x.e - e0), BShl(y.m, y.e - e0)), e0)
       : x \in {x0}, y \in {y0}} : TRUE

\* C1: in every reachable state, whatever the interleaving of create_deal
\* calls, no two persisted Deals have the same trade_code.
C1_TradeCodesDistinct ==
    \A i, j \in 1..Len(deals) : i # j => deals[i].trade_code # deals[j].trade_code

\* C1 witness: a create_deal drew the code of a Deal persisted after its
\* pre-check, and its INSERT was refused for the code alone.
C1_Witness ==
    \E p \in Procs :
        /\ req[p].op = "create_deal" /\ req[p].pc = "done"
        /\ req[p].result = IntegrityError
        /\ ~TradeCodeUnique(req[p].trade_code)
        /\ UserFK(req[p].buyer_id)

\* C2 (as claimed): in every step the status of every Deal stays the same or
\* moves pending -> paid by confirm_payment or paid -> released by
\* release_funds; never backwards, and never out of released.
C2_StatusEdgesOnly ==
    [][\A i \in 1..Len(deals) :
          \/ deals'[i].status = deals[i].status
          \/ /\ deals[i].status = "pending" /\ deals'[i].status = "paid"
             /\ \E p \in Procs : req[p].pc = "cp_update" /\ req'[p].pc = "cp_log"
          \/ /\ deals[i].status = "paid" /\ deals'[i].status = "released"
             /\ \E p \in Procs : req[p].pc = "rf_update" /\ req'[p].pc = "rf_log"]_vars

\* C3 (as claimed): for every Deal at most one confirm_payment call and at
\* most one release_funds call returns success.
C3_AtMostOneSuccess ==
    \A d \in 1..Len(acks) :
        acks[d].confirm_payment <= 1 /\ acks[d].release_funds <= 1

\* C4: release_funds with a secret other than the release secret fails with
\* Forbidden (403) in its first step, for every trade code, and that step
\* changes no Deal and no Log; such a request takes no other step.
C4_WrongSecretForbidden ==
    [][\A p \in Procs :
          /\ (Receives(p, "release_funds") /\ req'[p].secret # RELEASE_SECRET)
                => /\ req'[p].pc = "done"
                   /\ req'[p].result = InvalidAdminSecret
                   /\ deals' = deals /\ logs' = logs
          /\ (req[p].op = "release_funds" /\ req[p].secret # RELEASE_SECRET)
                => req[p].pc = "done" /\ req[p].result = InvalidAdminSecret]_vars

\* C4 witness: Scenario C, the wrong secret on a paid Deal.
C4_Witness ==
    \E p \in Procs :
        /\ req[p].op = "release_funds" /\ req[p].pc = "done"
        /\ req[p].secret # RELEASE_SECRET
        /\ req[p].result = InvalidAdminSecret
        /\ Named(req[p].code) # 0
        /\ deals[Named(req[p].code)].status = "paid"

\* C5: confirm_payment on a Deal that is not pending when it is looked up
\* fails with InvalidState (400) and changes no Deal and no Log; so does every
\* confirm_payment received after one for the same Deal returned success.
C5_ConfirmNotPending ==
    [][\A p \in Procs :
          Receives(p, "confirm_payment") =>
             LET d == Named(req'[p].code) IN
             (d # 0 /\ (deals[d].status # "pending" \/ acks[d].confirm_payment > 0))
                => /\ req'[p].pc = "done"
                   /\ req'[p].result = DealNotPending
                   /\ deals' = deals /\ logs' = logs]_vars

\* C5 witness: the second of two sequential confirm_payment calls has failed.
C5_Witness ==
    \E p \in Procs :
        /\ req[p].op = "confirm_payment" /\ req[p].pc = "done"
        /\ req[p].result = DealNotPending
        /\ acks[req[p].deal_id].confirm_payment = 1
        /\ deals[req[p].deal_id].status = "paid"

\* C6: release_funds with the release secret fails with InvalidState (400) on
\* a Deal that is not paid when it is looked up and with NotFound (404) on a
\* code that names no Deal; either way the step changes no Deal and no Log.
C6_ReleaseNotPaid ==
    [][\A p \in Procs :
          (Receives(p, "release_funds") /\ req'[p].secret = RELEASE_SECRET) =>
             LET d == Named(req'[p].code) IN
             /\ (d # 0 /\ deals[d].status # "paid")
                   => /\ req'[p].pc = "done" /\ req'[p].result = DealNotPaid
                      /\ deals' = deals /\ logs' = logs
             /\ d = 0
                   => /\ req'[p].pc = "done" /\ req'[p].result = DealNotFound
                      /\ deals' = deals /\ logs' = logs]_vars

\* C6 witness: a release before the payment was confirmed has failed.
C6_Witness ==
    \E p \in Procs :
        /\ req[p].op = "release_funds" /\ req[p].pc = "done"
        /\ req[p].result = DealNotPaid
        /\ deals[req[p].deal_id].status = "pending"

\* C7 (as claimed): in no reachable state does a persisted Deal exist without
\* its "Deal created" Log entry.
C7_DealCreatedLogged ==
    \A d \in 1..Len(deals) : HasLog(d, "Deal created")

\* C8: the INSERT of create_deal persists a Deal with status pending,
\* etb_amount = usdt_amount * rate of the listing, commission_amount =
\* usdt_amount * (COMMISSION_PERCENT / 100), seller_id = user_id of the listing
\* and the configured escrow wallet; 100 at rate 130 gives 13000 and 1.5.
C8_DealAsComputed ==
    [][\A p \in Procs :
          (req[p].pc = "cd_insert" /\ req'[p].pc = "cd_log") =>
             LET d == deals'[Len(deals')]
                 l == listings[req[p].listing_id]
                 a == req[p].usdt_amount
             IN  /\ Len(deals') = Len(deals) + 1
                 /\ d.status = "pending"
                 /\ d.usdt_amount = a
                 /\ d.buyer_id = req[p].buyer_id
                 /\ d.listing_id = req[p].listing_id
                 /\ d.etb_amount = FMul(a, l.rate)
                 /\ d.commission_amount = FMul(a, FDiv(COMMISSION_PERCENT, Hundred))
                 /\ d.seller_id = l.user_id
                 /\ d.escrow_wallet = ESCROW_WALLET
                 /\ (a = Float(100, 0) /\ l.rate = Float(130, 0))
                       => /\ d.etb_amount = Float(13000, 0)
                          /\ d.commission_amount = Float(3, -1)]_vars

\* C8 witness: Scenario A has returned its Deal.
C8_Witness ==
    \E p \in Procs :
        /\ req[p].op = "create_deal" /\ req[p].pc = "done" /\ req[p].result = Ok
        /\ req[p].response.usdt_amount = Float(100, 0)
        /\ req[p].response.etb_amount = Float(13000, 0)
        /\ req[p].response.commission_amount = Float(3, -1)
        /\ req[p].response.status = "pending"

\* C9: no step removes a Deal or changes a column of a Deal other than
\* status, and a step that changes the status of a Deal is a step of a
\* confirm_payment or release_funds on the code of that Deal and changes no
\* other Deal.
C9_DealsFrozen ==
    [][/\ Len(deals') >= Len(deals)
       /\ \A i \in 1..Len(deals) :
             /\ [deals'[i] EXCEPT !.status = deals[i].status] = deals[i]
             /\ deals'[i] # deals[i] =>
                   /\ \E p \in Procs :
                         /\ req[p].op \in {"confirm_payment", "release_funds"}
                         /\ req[p].pc # req'[p].pc
                         /\ Named(req[p].code) = i
                   /\ \A j \in 1..Len(deals) : j # i => deals'[j] = deals[j]]_vars

\* C9 witness: one Deal was confirmed and released next to one left pending.
C9_Witness ==
    \E i, j \in 1..Len(deals) :
        /\ deals[i].status = "released" /\ deals[j].status = "pending"
        /\ acks[i].release_funds = 1

\* C10 (as claimed): a release_funds that succeeded left the Deal released
\* and returned amount_released = usdt_amount - commission_amount and
\* commission = commission_amount, so that amount_released + commission =
\* usdt_amount.
C10_ReleaseAddsUp ==
    \A p \in Procs :
        (req[p].op = "release_funds" /\ req[p].pc = "done" /\ req[p].result = Ok) =>
           LET d == deals[req[p].deal_id] IN
           /\ d.status = "released"
           /\ req[p].response.amount_released = FSub(d.usdt_amount, d.commission_amount)
           /\ req[p].response.commission = d.commission_amount
           /\ FAdd(req[p].response.amount_released, req[p].response.commission)
                 = d.usdt_amount

\* C11: create_deal with a listing_id that names no Listing fails with
\* NotFound (404) in its first step, and confirm_payment with a trade code that
\* names no Deal fails with NotFound (404) in its first step; neither step
\* changes a Deal or a Log, and a create_deal that failed so has persisted no
\* Deal and no Log entry.
C11_NotFoundChangesNothing ==
    [][\A p \in Procs :
          /\ (Receives(p, "create_deal") /\ req'[p].listing_id \notin 1..Len(listings))
                => /\ req'[p].pc = "done"
                   /\ req'[p].result = ListingNotFound
                   /\ deals' = deals /\ logs' = logs
          /\ (Receives(p, "confirm_payment")
                /\ \A i \in 1..Len(deals) :
                      /\ deals[i].trade_code # req'[p].code
                      /\ <<"#">> \o deals[i].trade_code # req'[p].code)
                => /\ req'[p].pc = "done"
                   /\ req'[p].result = DealNotFound
                   /\ deals' = deals /\ logs' = logs
                   /\ users' = users /\ listings' = listings
          /\ (req[p].op = "create_deal" /\ req[p].result = ListingNotFound)
                => /\ req[p].deal_id = 0
                   /\ (deals' # deals \/ logs' # logs) => req'[p] = req[p]]_vars

\* C11 witness: a confirm_payment on a code that names none of the Deals that
\* exist has failed with NotFound.
C11_Witness ==
    \E p \in Procs :
        /\ req[p].op = "confirm_payment" /\ req[p].pc = "done"
        /\ req[p].result = DealNotFound
        /\ Len(deals) > 0 /\ Len(logs) > 0

\* the ids of the Deals in a response of get_pending_deals
Listed(response) == {response[i].id : i \in 1..Len(response)}

\* C12 (as claimed): get_pending_deals returns exactly the persisted Deals
\* whose status is pending or paid at the time of the call, changes no Deal
\* and no Log, and never lists a Deal after a release_funds on it succeeded.
C12_ListedUntilReleased ==
    [][\A p \in Procs :
          Receives(p, "get_pending_deals") =>
             /\ req'[p].pc = "done" /\ req'[p].result = Ok
             /\ Listed(req'[p].response) =
                   {d \in 1..Len(deals) : deals[d].status \in {"pending", "paid"}}
             /\ \A i \in 1..Len(req'[p].response) :
                   req'[p].response[i] = deals[req'[p].response[i].id]
             /\ \A d \in 1..Len(deals) :
                   deals[d].status = "released" => d \notin Listed(req'[p].response)
             /\ deals' = deals /\ logs' = logs
             /\ \A d \in 1..Len(deals) :
                   acks[d].release_funds > 0 => d \notin Listed(req'[p].response)]_vars

\* what the first step of a confirm_payment or release_funds does when it
\* looks up the Deal with trade code key: the next position of the handler,
\* its result and the Deal it found
OutcomeOn(op, key, secret) ==
    LET found == {i \in 1..Len(deals) : deals[i].trade_code = key}
        d == IF found = {} THEN 0 ELSE CHOOSE i \in found : \A j \in found : i <= j
    IN  IF op = "release_funds" /\ secret # RELEASE_SECRET
        THEN <<"done", InvalidAdminSecret, 0>>
        ELSE IF d = 0 THEN <<"done", DealNotFound, 0>>
        ELSE IF op = "confirm_payment"
        THEN IF deals[d].status = "pending"
             THEN <<"cp_update", Running, d>> ELSE <<"done", DealNotPending, d>>
        ELSE IF deals[d].status = "paid"
             THEN <<"rf_update", Running, d>> ELSE <<"done", DealNotPaid, d>>

\* C13: for every generated code c, confirm_payment and release_funds called
\* with "#" + c look up the Deal with trade code c and go on exactly as when
\* called with c; called with "##" + c they look up "#" + c, which names no
\* Deal, and fail with NotFound (or Forbidden, on a wrong secret).
C13_StripsOneHash ==
    [][\A p \in Procs :
          (Receives(p, "confirm_payment") \/ Receives(p, "release_funds")) =>
             LET r == req'[p]
                 outcome == <<r.pc, r.result, r.deal_id>>
             IN  \A c \in Codes :
                   /\ r.code \in {c, <<"#">> \o c}
                         => /\ outcome = OutcomeOn(r.op, c, r.secret)
                            /\ r.result # InvalidAdminSecret => r.trade_code = c
                   /\ r.code = <<"#", "#">> \o c
                         => /\ outcome = OutcomeOn(r.op, <<"#">> \o c, r.secret)
                            /\ r.result \in {DealNotFound, InvalidAdminSecret}
                            /\ r.result # InvalidAdminSecret
                                  => r.trade_code = <<"#">> \o c]_vars

\* C13 witness: Scenario B, a confirm_payment called with "#" + code has
\* succeeded and the Deal with that code is paid.
C13_Witness ==
    \E p \in Procs :
        /\ req[p].op = "confirm_payment" /\ req[p].pc = "done" /\ req[p].result = Ok
        /\ Len(req[p].code) = CodeLen + 1 /\ req[p].code[1] = "#"
        /\ deals[req[p].deal_id].trade_code = Tail(req[p].code)
        /\ deals[req[p].deal_id].status = "paid"
        /\ acks[req[p].deal_id].confirm_payment = 1

\* C14 (as claimed): no two Users share a telegram_username, and a
\* create_user whose handle is taken when its User would be persisted ends
\* with Conflict (400 "User already exists"), also when it lost a race against
\* a concurrent create_user with the same handle.
C14_TakenHandleConflict ==
    /\ \A i, j \in 1..Len(users) :
          i # j => users[i].telegram_username # users[j].telegram_username
    /\ \A p \in Procs :
          (req[p].op = "create_user" /\ req[p].pc = "done") =>
             \/ /\ req[p].result = Ok
                /\ req[p].response \in {users[i] : i \in 1..Len(users)}
             \/ /\ req[p].result = UserExists
                /\ \E i \in 1..Len(users) :
                      users[i].telegram_username = req[p].telegram_username

\* C15 (as claimed): a create_deal whose references all exist never ends in a
\* storage error: when its INSERT collides with the trade code of a Deal
\* persisted after its pre-check it draws a new code, and it returns a Deal
\* whose code no other Deal has.
C15_CollisionRetried ==
    \A p \in Procs :
        (/\ req[p].op = "create_deal" /\ req[p].pc = "done"
         /\ req[p].listing_id \in 1..Len(listings)
         /\ req[p].buyer_id \in 1..Len(users)
         /\ req[p].listing.user_id \in 1..Len(users)) =>
            /\ req[p].result = Ok
            /\ \A i \in 1..Len(deals) :
                  i # req[p].deal_id => deals[i].trade_code # req[p].response.trade_code

\* C16 (as claimed): every create_deal call on an existing listing eventually
\* returns, also when every code of the code space is the trade code of a
\* persisted Deal.
C16_CreateDealReturns ==
    \A p \in Procs :
        (req[p].op = "create_deal") ~> (req[p].pc = "done")

\* the number of Log entries of Deal d with the given action
LogCount(d, action) ==
    Cardinality({i \in 1..Len(logs) : logs[i].deal_id = d /\ logs[i].action = action})

\* C17 (as claimed): whenever no request is in progress, every Deal has
\* exactly one "Deal created" entry, exactly one "Payment confirmed" entry if
\* its status is paid or released and none otherwise, and exactly one "Funds
\* released" entry if its status is released and none otherwise.
C17_OneLogPerTransition ==
    (\A p \in Procs : req[p].pc = "idle") =>
        \A d \in 1..Len(deals) :
            /\ LogCount(d, "Deal created") = 1
            /\ LogCount(d, "Payment confirmed") =
                  (IF deals[d].status \in {"paid", "released"} THEN 1 ELSE 0)
            /\ LogCount(d, "Funds released") =
                  (IF deals[d].status = "released" THEN 1 ELSE 0)

\* C18: in every step the sequence of Log records stays as it is or gets new
\* records at its end, existing records are neither changed nor removed, and
\* the deal_id of every Log record is the id of a persisted Deal.
C18_LogAppendOnly ==
    [][/\ Len(logs') >= Len(logs)
       /\ \A i \in 1..Len(logs) : logs'[i] = logs[i]
       /\ \A i \in 1..Len(logs') :
             /\ logs'[i].deal_id \in 1..Len(deals')
             /\ deals'[logs'[i].deal_id].id = logs'[i].deal_id]_vars

\* C18 witness: the log holds the three entries of a Deal that went through
\* its whole lifecycle, next to the entry of another Deal.
C18_Witness ==
    \E d, e \in 1..Len(deals) :
        /\ d # e
        /\ HasLog(d, "Deal created") /\ HasLog(d, "Payment confirmed")
        /\ HasLog(d, "Funds released")
        /\ HasLog(e, "Deal created")

\* C19 (as claimed): for every Deal, its "Deal created" entry precedes each of
\* its "Payment confirmed" entries, and each of these precedes each of its
\* "Funds released" entries, in the order of the log.
C19_LogInLifecycleOrder ==
    \A i, j \in 1..Len(logs) :
        (logs[i].deal_id = logs[j].deal_id /\ i < j) =>
            /\ logs[j].action # "Deal created"
            /\ logs[i].action = "Funds released" => logs[j].action = "Funds released"

\* C20 (as claimed): every persisted Deal references an existing Listing, an
\* existing buyer User and an existing seller User.
C20_DealReferencesExist ==
    \A d \in 1..Len(deals) :
        /\ deals[d].listing_id \in 1..Len(listings)
        /\ deals[d].buyer_id \in 1..Len(users)
        /\ deals[d].seller_id \in 1..Len(users)

=============================================================================
